---- MODULE Spec2Model ----
(***************************************************************************)
(* MySensors gateway/repeater on ESP32 (src/src/main.cpp): the statistics  *)
(* store (rxtxStats, nMessagesRx/Tx, nRetries, arcStats, t_last_clear),    *)
(* the ARC estimator, the "%KEYWORD%" templating engine of the web UI and  *)
(* the periodic activities of loop().                                      *)
(*                                                                         *)
(* Three specifications share the variables:                               *)
(*   Spec        the statistics store under indications, previews,         *)
(*               transmissions, "/clear" requests and the wall clock       *)
(*   SpecRender  process() run iteration by iteration on small templates   *)
(*   SpecLoop    passes of loop() over a 32-bit millisecond clock          *)
(***************************************************************************)
EXTENDS Integers, Sequences, FiniteSets, TLC

VARIABLES
    \* ---- statistics store (main.cpp 270-308)
    rxtxStats,      \* struct RxTxStats_t { nRx, nTx, nGwRx, nGwTx, nErr }
    nMessagesRx,    \* unsigned nMessagesRx[256]
    nMessagesTx,    \* unsigned nMessagesTx[256]
    nRetries,       \* unsigned nRetries[256]
    arcStats,       \* struct ArcStats_t { packets, retries, success }
    t_last_clear,   \* time_t t_last_clear
    payload,        \* static char payload[26] of reportArcStatistics()
    epoch,          \* what getTimeNow() returns (seconds)
    lastOp,         \* name of the operation that produced this state
    nOps,           \* number of operations and clock ticks so far (bounded by MaxOps)
    \* ---- templating engine, process() (main.cpp 644-662)
    tpl, p1, p2, res, pc, iter,
    \* ---- loop() (main.cpp 1091-1143)
    build,          \* compile-time options of the device
    t_now,          \* millis() sampled by the last pass (uint32 as two halves)
    lastFired,      \* the static t_last... variables of loop()
    fired,          \* the activities run by the last pass, in order
    trueSince,      \* true milliseconds since each activity last ran
    seenElapsed,    \* the elapsed time each interval check of the last pass used
    trueElapsed,    \* the true elapsed time at each interval check of the last pass
    reportGap,      \* true ms between the last two {P,R,S} broadcasts, -1 if < 2
    sinceReport,    \* true ms since the last {P,R,S} broadcast of the loop, -1 if none
    led,            \* the built-in LED
    passes,         \* number of passes so far (bounded by MaxPasses)
    passAt,         \* the block of loop() the current pass is at and how far into it
    \* ---- web UI (main.cpp 665-695)
    request,        \* the route of the last GET request handled, "" when none
    responses,      \* the responses httpServer.send() has sent for it
    events,         \* what its handler has done, in order
    restarting,     \* ESP.restart() has been called and setup() has not yet run
    \* ---- tasks (main.cpp 42, 1005-1009)
    tasks,          \* 2 with MY_SEPARATE_PROCESS_TASK (loop() and _process() in
                    \* separate tasks), else 1
    loopAt,         \* statements of the "/clear" handler the loop task has done, 0 when
                    \* it is not inside the handler
    processAt       \* the increment the _process task is inside of, if any

storeVars  == <<rxtxStats, nMessagesRx, nMessagesTx, nRetries, arcStats, t_last_clear,
                payload>>
clockVars  == <<epoch>>
ghostVars  == <<lastOp, nOps>>
renderVars == <<tpl, p1, p2, res, pc, iter>>
loopVars   == <<build, t_now, lastFired, fired, trueSince, seenElapsed, trueElapsed,
                reportGap, sinceReport, led, passes, passAt>>
httpVars   == <<request, responses, events, restarting>>
taskVars   == <<tasks, loopAt, processAt>>
vars == <<storeVars, clockVars, ghostVars, renderVars, loopVars, httpVars, taskVars>>

----------------------------------------------------------------------------
(* Bounds of the model *)

\* store operations and clock ticks per behaviour
MaxOps == 3
\* pieces per template handed to process()
MaxPieces == 4
\* iterations of the scan loop of process() that are followed
MaxIter == 6
\* passes of loop() per behaviour
MaxPasses == 4

----------------------------------------------------------------------------
(* Node ids and radio readings *)

NodeIds == 0..255

\* the node ids that traffic is drawn from: a node of the table and the
\* last id
SampleIds == {25, 255}

\* RF24 OBSERVE_TX & 0xF: the automatic retry count of the last transmission
ObserveTx == 0..15

\* the readings that transmissions are drawn from
SampleObserveTx == {0, 4, 15}

\* transportHALGetSendingRSSI() for the RF24 radio, as the comment in
\* collectArcStatistics() gives it
transportHALGetSendingRSSI(observeTx) == -29 - (8 * observeTx)

\* C integer division truncates toward zero
CDiv(a, b) == IF a >= 0 THEN a \div b ELSE -((-a) \div b)

----------------------------------------------------------------------------
(* 32-bit unsigned arithmetic.  unsigned and unsigned long are 32 bits on  *)
(* the ESP32; a value that may reach 2^31 is held as its two 16-bit halves *)
(* <<high, low>>, so that all 2^32 values are there.                       *)

\* the uint32_t of a number below 2^31
U32(n) == <<n \div 65536, n % 65536>>

\* the number of a uint32_t below 2^31
Int32(x) == x[1] * 65536 + x[2]

\* uint32_t addition and subtraction, modulo 2^32
Add32(a, b) ==
    LET lo == a[2] + b[2]
    IN  <<(a[1] + b[1] + (lo \div 65536)) % 65536, lo % 65536>>

Sub32(a, b) ==
    LET lo == a[2] - b[2]
        hi == a[1] - b[1] - (IF lo < 0 THEN 1 ELSE 0)
    IN  <<(hi + 65536) % 65536, (lo + 65536) % 65536>>

\* a > b on uint32_t
Gt32(a, b) == a[1] > b[1] \/ (a[1] = b[1] /\ a[2] > b[2])

\* uint32_t multiplication by a factor below 2^15, modulo 2^32
Mul32(a, k) ==
    LET lo == a[2] * k
    IN  <<(a[1] * k + (lo \div 65536)) % 65536, lo % 65536>>

\* uint32_t division x / n, n # 0.  For a dividend of 2^31 or more and a
\* divisor below 2^31 the quotients and remainders of 2^31 and of the
\* rest of x are added up, so that no intermediate value reaches 2^31.
Div32(x, n) ==
    IF n[1] >= 32768 THEN (IF Gt32(n, x) THEN <<0, 0>> ELSE <<0, 1>>)
    ELSE IF x[1] < 32768 THEN U32(Int32(x) \div Int32(n))
    ELSE LET d    == Int32(n)
             low  == Int32(<<x[1] - 32768, x[2]>>)
             \* 2^31 = q31 * d + r31 with 1 <= r31 <= d
             q31  == 2147483647 \div d
             r31  == (2147483647 % d) + 1
             more == IF r31 >= d - (low % d) THEN 1 ELSE 0
         IN  Add32(Add32(U32(q31), U32(low \div d)), U32(more))

----------------------------------------------------------------------------
(* The statistics store as one value *)

Store == [rxtxStats   |-> rxtxStats,
          nMessagesRx |-> nMessagesRx,
          nMessagesTx |-> nMessagesTx,
          nRetries    |-> nRetries,
          arcStats    |-> arcStats,
          t_last_clear |-> t_last_clear]

SetStore(s) ==
    /\ rxtxStats'    = s.rxtxStats
    /\ nMessagesRx'  = s.nMessagesRx
    /\ nMessagesTx'  = s.nMessagesTx
    /\ nRetries'     = s.nRetries
    /\ arcStats'     = s.arcStats
    /\ t_last_clear' = s.t_last_clear

\* the globals as the C runtime zero-initialises them
ZeroStore == [rxtxStats   |-> [nRx |-> 0, nTx |-> 0, nGwRx |-> 0, nGwTx |-> 0, nErr |-> 0],
              nMessagesRx |-> [i \in NodeIds |-> 0],
              nMessagesTx |-> [i \in NodeIds |-> 0],
              nRetries    |-> [i \in NodeIds |-> 0],
              arcStats    |-> [packets |-> 0, retries |-> 0, success |-> 0],
              t_last_clear |-> 0]

\* the divisor (packets + retries), in 32 bits
SuccessDivisor(packets, retries) == Add32(U32(packets), U32(retries))

\* packets ? (100uL * packets) / (packets + retries) : 100, in 32 bits
SuccessRate(packets, retries) ==
    IF packets # 0
    THEN Int32(Div32(Mul32(U32(packets), 100), SuccessDivisor(packets, retries)))
    ELSE 100

\* the estimate without the offset of 29
ArcOfRssiNoOffset(rssi) == CDiv(-rssi, 8)

\* int arc = (-(rssi+29))/8
ArcOfRssi(rssi) == CDiv(-(rssi + 29), 8)

\* collectArcStatistics(): the store afterwards and the value returned
collectArcStatistics(s, observeTx) ==
    LET rssi == transportHALGetSendingRSSI(observeTx)
        arc  == ArcOfRssi(rssi)
        pk   == s.arcStats.packets + 1
        rt   == s.arcStats.retries + arc
    IN  [s   |-> [s EXCEPT !.arcStats =
                     [packets |-> pk, retries |-> rt, success |-> SuccessRate(pk, rt)]],
         arc |-> arc]

\* the divisors of the divisions one call of collectArcStatistics() makes
collectArcStatistics_divisors(s, observeTx) ==
    LET pk == s.arcStats.packets + 1
        rt == s.arcStats.retries + ArcOfRssi(transportHALGetSendingRSSI(observeTx))
    IN  IF pk # 0 THEN {SuccessDivisor(pk, rt)} ELSE {}

\* initStats without the memset of nRetries
initStatsKeepsRetries(s, now) ==
    [rxtxStats   |-> [nRx |-> 0, nTx |-> 0, nGwRx |-> 0, nGwTx |-> 0, nErr |-> 0],
     nMessagesRx |-> [i \in NodeIds |-> 0],
     nMessagesTx |-> [i \in NodeIds |-> 0],
     nRetries    |-> s.nRetries,
     arcStats    |-> [packets |-> 0, retries |-> 0, success |-> 0],
     t_last_clear |-> now]

\* initStats(): five memsets, then t_last_clear = getTimeNow()
initStats(s, now) ==
    [rxtxStats   |-> [nRx |-> 0, nTx |-> 0, nGwRx |-> 0, nGwTx |-> 0, nErr |-> 0],
     nMessagesRx |-> [i \in NodeIds |-> 0],
     nMessagesTx |-> [i \in NodeIds |-> 0],
     nRetries    |-> [i \in NodeIds |-> 0],
     arcStats    |-> [packets |-> 0, retries |-> 0, success |-> 0],
     t_last_clear |-> now]

Indications == {"INDICATION_TX", "INDICATION_RX", "INDICATION_GW_TX",
                "INDICATION_GW_RX", "INDICATION_ERR_TX", "INDICATION_OTHER"}

\* the switch with the break after case INDICATION_GW_RX left out
indicationFallsThrough(s, ind) ==
    CASE ind = "INDICATION_TX"     -> [s EXCEPT !.rxtxStats.nTx   = @ + 1]
      [] ind = "INDICATION_RX"     -> [s EXCEPT !.rxtxStats.nRx   = @ + 1]
      [] ind = "INDICATION_GW_TX"  -> [s EXCEPT !.rxtxStats.nGwTx = @ + 1]
      [] ind = "INDICATION_GW_RX"  -> [s EXCEPT !.rxtxStats.nGwRx = @ + 1,
                                               !.rxtxStats.nErr  = @ + 1]
      [] ind = "INDICATION_ERR_TX" -> [s EXCEPT !.rxtxStats.nErr  = @ + 1]
      [] OTHER                     -> s

\* indication(ind): the switch over the five counted indications
indication(s, ind) ==
    CASE ind = "INDICATION_TX"     -> [s EXCEPT !.rxtxStats.nTx   = @ + 1]
      [] ind = "INDICATION_RX"     -> [s EXCEPT !.rxtxStats.nRx   = @ + 1]
      [] ind = "INDICATION_GW_TX"  -> [s EXCEPT !.rxtxStats.nGwTx = @ + 1]
      [] ind = "INDICATION_GW_RX"  -> [s EXCEPT !.rxtxStats.nGwRx = @ + 1]
      [] ind = "INDICATION_ERR_TX" -> [s EXCEPT !.rxtxStats.nErr  = @ + 1]
      [] OTHER                     -> s

\* the count kept under the id after the sender's
previewMessageNextId(s, sender) == [s EXCEPT !.nMessagesRx[(sender + 1) % 256] = @ + 1]

\* previewMessage(message): nMessagesRx[ message.getSender() ]++
previewMessage(s, sender) == [s EXCEPT !.nMessagesRx[sender] = @ + 1]

\* aftertransportSend with nRetries[...] = arc in place of += arc
aftertransportSendAssigns(s, nextRecipient, observeTx) ==
    LET c == collectArcStatistics(s, observeTx)
    IN  [c.s EXCEPT !.nMessagesTx[nextRecipient] = @ + 1,
                    !.nRetries[nextRecipient]    = c.arc]

\* aftertransportSend(nextRecipient, message)
aftertransportSend(s, nextRecipient, observeTx) ==
    LET c == collectArcStatistics(s, observeTx)
    IN  [c.s EXCEPT !.nMessagesTx[nextRecipient] = @ + 1,
                    !.nRetries[nextRecipient]    = @ + c.arc]

----------------------------------------------------------------------------
(* Text.  A text is a sequence of strings whose concatenation it stands    *)
(* for.  Templates, numbers and the status payload are held one character  *)
(* per element; fixed HTML fragments are held as one element each.         *)

Digit(d) == <<"0", "1", "2", "3", "4", "5", "6", "7", "8", "9">>[d + 1]

\* utoa(u, buf, 10) and String(unsigned): decimal digits, no leading zero
RECURSIVE utos(_)
utos(u) == IF u < 10 THEN <<Digit(u)>> ELSE utos(u \div 10) \o <<Digit(u % 10)>>

\* utos() of a value that may reach 2^31
RECURSIVE utos32(_)
utos32(x) ==
    IF x[1] < 32768 THEN utos(Int32(x))
    ELSE LET q == Div32(x, U32(10))
         IN  utos32(q) \o <<Digit(Int32(Sub32(x, Mul32(q, 10))))>>

\* "%02d"
TwoDigits(n) == <<Digit((n \div 10) % 10), Digit(n % 10)>>

\* String::indexOf(char ch, unsigned fromIndex): 0-based, -1 when fromIndex
\* is past the end or ch does not occur at or after it
IndexOf(s, ch, fromIndex) ==
    IF fromIndex < 0 \/ fromIndex >= Len(s) THEN -1
    ELSE LET hits == {i \in fromIndex..(Len(s) - 1) : s[i + 1] = ch}
         IN  IF hits = {} THEN -1
             ELSE CHOOSE i \in hits : \A j \in hits : i <= j

\* String::substring(unsigned left, unsigned right): the bounds are swapped
\* when left > right, right is cut to the length, and the result is empty
\* when left is at or past the end (a negative int converts to a huge unsigned)
Substring(s, left, right) ==
    LET l == IF left > right /\ right >= 0 THEN right ELSE left
        r == IF left > right /\ right >= 0 THEN left ELSE right
    IN  IF l < 0 \/ l >= Len(s) THEN <<>>
        ELSE SubSeq(s, l + 1, IF r < 0 \/ r > Len(s) THEN Len(s) ELSE r)

\* String::substring(unsigned left): to the end of the string
SubstringFrom(s, left) == Substring(s, left, Len(s))

----------------------------------------------------------------------------
(* The web UI's table and keywords (main.cpp 514-632) *)

\* make_table_row(y, nSecsElapsed): one <tr> with the cells of nodes y..y+9
make_table_cell(s, id, nSecsElapsed) ==
    LET totalMsgsRx == s.nMessagesRx[id]
        totalMsgsTx == s.nMessagesTx[id]
        \* (totalMsgsRx * 3600uL) / nSecsElapsed
        MsgsPerHour == Div32(Mul32(U32(totalMsgsRx), 3600), U32(nSecsElapsed))
        totalRetries == s.nRetries[id]
        \* (100 * totalMsgsTx) / (totalMsgsTx + totalRetries)
        success     == Div32(Mul32(U32(totalMsgsTx), 100),
                             SuccessDivisor(totalMsgsTx, totalRetries))
        rxPart == IF totalMsgsRx > 0
                  THEN <<"<b>">> \o utos(totalMsgsRx) \o <<"</b>">> \o
                       (IF nSecsElapsed # 0
                        THEN <<"&ensp;<span class='mph'>">>
                             \o utos32(MsgsPerHour)
                             \o <<"/h</span>">>
                        ELSE <<>>)
                  ELSE <<>>
        txPart == IF totalMsgsTx > 0
                  THEN <<"<br/><span class='suc'>">>
                       \o utos32(success)
                       \o <<"%", "</span>">>
                  ELSE <<>>
    IN  <<"<td>">> \o rxPart \o txPart \o <<"</td>">>

\* the divisors without the test of nSecsElapsed
make_table_cell_divisors_unguarded(s, id, nSecsElapsed) ==
    {U32(nSecsElapsed)}
    \cup (IF s.nMessagesTx[id] > 0
          THEN {SuccessDivisor(s.nMessagesTx[id], s.nRetries[id])}
          ELSE {})

\* the divisors of the divisions make_table_row() makes for one cell:
\* nSecsElapsed under if (nSecsElapsed), and (totalMsgsTx + totalRetries)
\* under if (totalMsgsTx > 0)
make_table_cell_divisors(s, id, nSecsElapsed) ==
    (IF nSecsElapsed # 0 THEN {U32(nSecsElapsed)} ELSE {})
    \cup (IF s.nMessagesTx[id] > 0
          THEN {SuccessDivisor(s.nMessagesTx[id], s.nRetries[id])}
          ELSE {})

RECURSIVE make_table_cells(_, _, _, _)
make_table_cells(s, y, x, nSecsElapsed) ==
    IF x >= 10 THEN <<>>
    ELSE make_table_cell(s, y + x, nSecsElapsed) \o make_table_cells(s, y, x + 1, nSecsElapsed)

make_table_row(s, y, nSecsElapsed) ==
    <<"<tr><th>">> \o utos(y) \o <<":</td>">>
    \o make_table_cells(s, y, 0, nSecsElapsed) \o <<"</tr>\n">>

RECURSIVE make_table_head(_)
make_table_head(x) ==
    IF x >= 10 THEN <<>>
    ELSE <<"<th>&ensp;+">> \o utos(x) \o <<"</th>">> \o make_table_head(x + 1)

\* the loop over y with y <= 200 in place of y < 200
RECURSIVE make_table_rows_inclusive(_, _, _)
make_table_rows_inclusive(s, y, nSecsElapsed) ==
    IF y > 200 THEN <<>>
    ELSE make_table_row(s, y, nSecsElapsed)
         \o make_table_rows_inclusive(s, y + 10, nSecsElapsed)

RECURSIVE make_table_rows(_, _, _)
make_table_rows(s, y, nSecsElapsed) ==
    IF y >= 200 THEN <<>>
    ELSE make_table_row(s, y, nSecsElapsed) \o make_table_rows(s, y + 10, nSecsElapsed)

\* make_table(): header row, rows 0 and 20, rows 100..190
make_table(s, now) ==
    LET nSecsElapsed == now - s.t_last_clear
    IN  <<"<table><tr><th> </th>">> \o make_table_head(0) \o <<"</tr>\n">>
        \o make_table_row(s, 0, nSecsElapsed)
        \o make_table_row(s, 20, nSecsElapsed)
        \o make_table_rows(s, 100, nSecsElapsed)
        \o <<"</table>">>

\* the indexes y + x at which make_table_row(y, ...) reads the arrays
RECURSIVE make_table_row_ids(_, _)
make_table_row_ids(y, x) ==
    IF x >= 10 THEN <<>> ELSE <<y + x>> \o make_table_row_ids(y, x + 1)

RECURSIVE make_table_rows_ids(_)
make_table_rows_ids(y) ==
    IF y >= 200 THEN <<>> ELSE <<make_table_row_ids(y, 0)>> \o make_table_rows_ids(y + 10)

\* the indexes make_table() reads, row by row
make_table_ids ==
    <<make_table_row_ids(0, 0), make_table_row_ids(20, 0)>> \o make_table_rows_ids(100)

\* the divisors of the divisions make_table() makes
make_table_divisors(s, now) ==
    UNION {make_table_cell_divisors(s, make_table_ids[r][c], now - s.t_last_clear) :
              r \in DOMAIN make_table_ids, c \in 1..10}

\* strftime "%d.%m.%Y %H:%M:%S" of a time within the first day of the epoch
\* (every time of the model is: epoch <= MaxOps)
StrfTime(t) ==
    <<"01.01.1970 ">> \o TwoDigits((t \div 3600) % 24) \o <<":">>
    \o TwoDigits((t \div 60) % 60) \o <<":">> \o TwoDigits(t % 60)

\* snprintf "%dd %dh %dm" of gmtime(t_elapsed), for less than a year
ElapsedText(t) ==
    utos((t \div 86400) % 365) \o <<"d", " ">> \o utos((t \div 3600) % 24)
    \o <<"h", " ">> \o utos((t \div 60) % 60) \o <<"m">>

\* processor(var): the replacement of keyword var
processor(s, var, now, repeater) ==
    CASE var = <<>>                                -> <<"%">>
      [] var = <<"I","P","A","D","D","R">>         -> <<"ETH.localIP()">>
      [] var = <<"H","O","S","T","N","A","M","E">> -> <<"ETH.getHostname()">>
      [] var = <<"N","O","D","E","I","D">>         -> <<"MY_NODE_ID">>
      [] var = <<"V","E","R","S","I","O","N">>     -> <<"VERSION">>
      [] var = <<"P","A","R","E","N","T">>         -> <<"transportGetParentNodeId()">>
      [] var = <<"P","O","W","E","R">>             -> <<"MY_RF24_PA_LEVEL">>
      [] var = <<"C","H","A","N","N","E","L">>     -> <<"MY_RF24_CHANNEL">>
      [] var = <<"N","R","X">>                     -> utos(s.rxtxStats.nRx)
      [] var = <<"N","T","X">>                     -> utos(s.rxtxStats.nTx)
      [] var = <<"N","G","W","R","X">>             -> utos(s.rxtxStats.nGwRx)
      [] var = <<"N","G","W","T","X">>             -> utos(s.rxtxStats.nGwTx)
      [] var = <<"N","E","R","R">>                 -> utos(s.rxtxStats.nErr)
      [] var = <<"P","A","C","K","E","T","S">>     -> utos(s.arcStats.packets)
      [] var = <<"R","E","T","R","I","E","S">>     -> utos(s.arcStats.retries)
      [] var = <<"S","U","C","C","E","S","S">>     -> utos(s.arcStats.success)
      [] var = <<"L","A","S","T","C","L","E","A","R">> -> StrfTime(s.t_last_clear)
      [] var = <<"E","L","A","P","S","E","D">>     -> ElapsedText(now - s.t_last_clear)
      [] var = <<"T","I","T","L","E">>             ->
             IF repeater THEN <<"ESP32 MySensors Repeater">>
                         ELSE <<"ESP32 MySensors Gateway">>
      [] var = <<"N","O","W">>                     -> StrfTime(now)
      [] var = <<"T","A","B","L","E">>             -> make_table(s, now)
      [] OTHER                                     -> <<>>

----------------------------------------------------------------------------
(* The pages of the web UI (main.cpp 434-504) and process() as a whole *)

\* common_header_html: literal text between keywords as one element each
\* (the style sheet, which has no '%', is left out; quotes are single)
common_header_html ==
    <<"\n<!DOCTYPE HTML><html>\n<head>\n  <title>", "%", "T", "I", "T", "L", "E", "%",
      "</title>\n  <style> ... </style>\n</head>\n<body>\n  <h2>", "%", "T", "I", "T", "L", "E", "%",
      "</h2>\n">>

common_footer_html ==
    <<"\n  <form action='/clear'><button type='submit'>Clear</button></form>\n",
      "  <form action='/reboot'><button type='submit'>Restart</button></form>\n",
      "</body>\n</html>\n">>

\* index_body_html of the repeater (#ifdef OPERATE_AS_REPEATER)
index_body_html_repeater ==
    <<"\n  <p>\n    IP:<b>", "%", "I", "P", "A", "D", "D", "R", "%", "</b>&ensp;\n    Name:<b>", "%", "H", "O", "S", "T", "N", "A", "M", "E", "%",
      "</b>&ensp;\n    Node:<b>", "%", "N", "O", "D", "E", "I", "D", "%", "</b>&ensp;\n    Parent:<b>", "%", "P", "A", "R", "E", "N", "T", "%",
      "</b>&ensp;\n    Power:<b>", "%", "P", "O", "W", "E", "R", "%",
      "</b>\n  </p>\n  <p>\n    ARC <b>", "%", "S", "U", "C", "C", "E", "S", "S", "%", "</b>", "%", "%",
      " success, <b>", "%", "P", "A", "C", "K", "E", "T", "S", "%", "</b> packets, <b>", "%", "R", "E", "T", "R", "I", "E", "S", "%",
      "</b> retries.&emsp;\n  </p>\n  <p>\n    Node rx:<b>", "%", "N", "R", "X", "%", "</b>&ensp;tx:<b>", "%", "N", "T", "X", "%", "</b>&ensp;err:<b>", "%", "N", "E", "R", "R", "%",
      "</b>&ensp;\n  </p>\n  <p>\n    since ", "%", "L", "A", "S", "T", "C", "L", "E", "A", "R", "%", " (", "%", "E", "L", "A", "P", "S", "E", "D", "%",
      ")&emsp;\n    time is now ", "%", "N", "O", "W", "%", "\n  </p>\n  <p>", "%", "T", "A", "B", "L", "E", "%",
      "</p>\n">>

\* index_body_html of the gateway (#ifdef OPERATE_AS_GATEWAY)
index_body_html_gateway ==
    <<"\n  <p>\n    IP: <b>", "%", "I", "P", "A", "D", "D", "R", "%", "</b>&emsp;\n    Name: <b>", "%", "H", "O", "S", "T", "N", "A", "M", "E", "%",
      "</b>&emsp;\n    Power: <b>", "%", "P", "O", "W", "E", "R", "%", "</b>&emsp;\n    Channel: <b>", "%", "C", "H", "A", "N", "N", "E", "L", "%",
      "</b>\n  </p>\n  <p>\n    ARC <b>", "%", "S", "U", "C", "C", "E", "S", "S", "%", "</b>", "%", "%",
      " success, <b>", "%", "P", "A", "C", "K", "E", "T", "S", "%", "</b> packets, <b>", "%", "R", "E", "T", "R", "I", "E", "S", "%",
      "</b> retries.&emsp;\n  </p>\n  <p>\n    Node: rx:<b>", "%", "N", "R", "X", "%", "</b>&ensp;tx:<b>", "%", "N", "T", "X", "%", "</b>&ensp;err:<b>", "%", "N", "E", "R", "R", "%",
      "</b><br/>\n    Gateway: rx:<b>", "%", "N", "G", "W", "R", "X", "%", "</b>&ensp;tx:<b>", "%", "N", "G", "W", "T", "X", "%",
      "</b>\n  </p>\n  <p>\n    since ", "%", "L", "A", "S", "T", "C", "L", "E", "A", "R", "%", " (", "%", "E", "L", "A", "P", "S", "E", "D", "%",
      ")&emsp;\n    time is now ", "%", "N", "O", "W", "%", "\n  </p>\n  <p>", "%", "T", "A", "B", "L", "E", "%",
      "</p>\n">>

index_body_html(repeater) ==
    IF repeater THEN index_body_html_repeater ELSE index_body_html_gateway

\* process(tpl): the while loop from (p1, p2) with res built so far
RECURSIVE processFrom(_, _, _, _, _, _, _)
processFrom(s, t, q1, q2, r, now, repeater) ==
    IF q1 = -1 THEN r \o SubstringFrom(t, q2)
    ELSE LET r1 == r \o Substring(t, q2, q1)
             q  == IndexOf(t, "%", q1 + 1)
             r2 == IF q # -1
                   THEN r1 \o processor(s, Substring(t, q1 + 1, q), now, repeater)
                   ELSE r1
         IN  processFrom(s, t, IndexOf(t, "%", q + 1), q + 1, r2, now, repeater)

process(s, t, now, repeater) ==
    processFrom(s, t, IndexOf(t, "%", 0), 0, <<>>, now, repeater)

----------------------------------------------------------------------------
(* Sending (main.cpp 372-385).  send() is the MySensors library's; what it *)
(* does to the store is what its callbacks into main.cpp do: on the radio  *)
(* path indication(INDICATION_TX) and aftertransportSend(), on the gateway *)
(* path indication(INDICATION_GW_TX), and nothing when nothing is sent.    *)

NoSend == [path |-> "none", to |-> 0, observeTx |-> 0]

SendOutcomes(repeater, readings) ==
    {NoSend} \cup
    (IF repeater
     THEN {[path |-> "radio", to |-> 0, observeTx |-> m] : m \in readings}
     ELSE {[path |-> "gateway", to |-> 0, observeTx |-> 0]})

send(s, o) ==
    CASE o.path = "radio"   ->
             aftertransportSend(indication(s, "INDICATION_TX"), o.to, o.observeTx)
      [] o.path = "gateway" -> indication(s, "INDICATION_GW_TX")
      [] OTHER              -> s

\* snprintf(payload, sizeof payload, ...): at most 25 characters are kept
Snprintf26(text) == IF Len(text) > 25 THEN SubSeq(text, 1, 25) ELSE text

\* "{P:%u,R:%u,S:%u}" of arcStats
FormatArc(a) ==
    Snprintf26(<<"{", "P", ":">> \o utos(a.packets) \o <<",", "R", ":">> \o utos(a.retries)
               \o <<",", "S", ":">> \o utos(a.success) \o <<"}">>)

\* reportArcStatistics(): format the payload, then send it
reportArcStatistics(s, o) ==
    [s |-> send(s, o), payload |-> FormatArc(s.arcStats)]

----------------------------------------------------------------------------
(* Operations on the statistics store *)

StoreStep(s, op) ==
    /\ nOps < MaxOps
    /\ SetStore(s)
    /\ lastOp' = op
    /\ nOps' = nOps + 1

\* the library reports an event: indication(ind)
OnIndication(ind) ==
    /\ StoreStep(indication(Store, ind), "indication")
    /\ UNCHANGED <<payload, clockVars, renderVars, loopVars, httpVars, taskVars>>

\* a message from node sender is about to be forwarded: previewMessage()
OnPreviewMessage(sender) ==
    /\ StoreStep(previewMessage(Store, sender), "previewMessage")
    /\ UNCHANGED <<payload, clockVars, renderVars, loopVars, httpVars, taskVars>>

\* a message has been transmitted to nextRecipient: aftertransportSend()
OnAftertransportSend(nextRecipient, observeTx) ==
    /\ StoreStep(aftertransportSend(Store, nextRecipient, observeTx), "aftertransportSend")
    /\ UNCHANGED <<payload, clockVars, renderVars, loopVars, httpVars, taskVars>>

\* a request handler at work: the store, the headers set for the next
\* response, the responses sent, what it has done, and whether it has
\* called ESP.restart()
httpBegin(s) == [s |-> s, headers |-> <<>>, out |-> <<>>, ev |-> <<>>, restart |-> FALSE]

\* httpServer.sendHeader(name, value, true)
sendHeader(h, name, value) ==
    [h EXCEPT !.headers = Append(@, <<name, value>>), !.ev = Append(@, "sendHeader")]

\* httpServer.send(code, content_type, content)
httpSend(h, code, content_type, content) ==
    [h EXCEPT !.out = Append(@, [code |-> code, type |-> content_type,
                                 headers |-> h.headers, content |-> content]),
              !.headers = <<>>,
              !.ev = Append(@, "send")]

\* httpServer.on("/", HTTP_GET, ...)
handleRoot(h, now, repeater) ==
    LET html == common_header_html \o index_body_html(repeater) \o common_footer_html
    IN  httpSend([h EXCEPT !.ev = Append(@, "process")],
                 200, "text/html", process(h.s, html, now, repeater))

\* "/clear" that redirects without resetting
handleClearNoReset(h, now) ==
    httpSend(sendHeader(h, "Location", "/"), 302, "text/plain", <<>>)

\* httpServer.on("/clear", HTTP_GET, ...)
handleClear(h, now) ==
    LET h1 == [h EXCEPT !.s = initStats(h.s, now), !.ev = Append(@, "initStats")]
    IN  httpSend(sendHeader(h1, "Location", "/"), 302, "text/plain", <<>>)

\* "/reboot" that restarts without answering
handleRebootNoReply(h) ==
    [h EXCEPT !.restart = TRUE, !.ev = Append(@, "ESP.restart")]

\* httpServer.on("/reboot", HTTP_GET, ...)
handleReboot(h) ==
    LET h1 == httpSend(sendHeader(h, "Location", "/"), 302, "text/plain", <<>>)
    IN  [h1 EXCEPT !.restart = TRUE, !.ev = Append(@, "ESP.restart")]

\* httpServer.onNotFound(...)
handleNotFound(h) == httpSend(h, 404, "text/plain", <<"not found">>)

\* the routes requests are drawn from
Routes == {"/", "/clear", "/reboot", "/favicon.ico", "/clear/"}

\* httpServer.handleClient() has dispatched a GET request to its handler
HttpStep(route, h, op) ==
    /\ ~restarting
    /\ StoreStep(h.s, op)
    /\ request' = route
    /\ responses' = h.out
    /\ events' = h.ev
    /\ restarting' = h.restart
    /\ UNCHANGED <<payload, clockVars, renderVars, loopVars, taskVars>>

\* GET /: the dashboard
HttpRoot == HttpStep("/", handleRoot(httpBegin(Store), epoch, build.repeater), "process")

\* GET /clear: initStats(), then the redirect
HttpClear == HttpStep("/clear", handleClear(httpBegin(Store), epoch), "initStats")

\* GET /reboot: the redirect, then ESP.restart()
HttpReboot == HttpStep("/reboot", handleReboot(httpBegin(Store)), "ESP.restart")

\* GET of a route that has no handler
HttpNotFound(route) ==
    /\ route \notin {"/", "/clear", "/reboot"}
    /\ HttpStep(route, handleNotFound(httpBegin(Store)), "notFound")

\* loop() or its hello block reports: reportArcStatistics()
OnReportArcStatistics(o) ==
    /\ StoreStep(reportArcStatistics(Store, o).s, "reportArcStatistics")
    /\ payload' = reportArcStatistics(Store, o).payload
    /\ UNCHANGED <<clockVars, renderVars, loopVars, httpVars, taskVars>>

\* the wall clock advances by a second
Tick ==
    /\ nOps < MaxOps
    /\ epoch' = epoch + 1
    /\ lastOp' = "tick"
    /\ nOps' = nOps + 1
    /\ UNCHANGED <<storeVars, renderVars, loopVars, httpVars, taskVars>>

----------------------------------------------------------------------------
(* process(tpl), one iteration of its while loop per step *)

\* res = ""; p1 = tpl.indexOf('%'); p2 = 0;
ProcessBegin(t) ==
    /\ pc = "idle"
    /\ tpl' = t
    /\ res' = <<>>
    /\ p1' = IndexOf(t, "%", 0)
    /\ p2' = 0
    /\ iter' = 0
    /\ pc' = "loop"
    /\ UNCHANGED <<storeVars, clockVars, ghostVars, loopVars, httpVars, taskVars>>

\* ProcessStep without the p2++ that steps over the closing delimiter
ProcessStepKeepsDelimiter ==
    /\ pc = "loop"
    /\ p1 # -1
    /\ iter < MaxIter
    /\ LET r1 == res \o Substring(tpl, p2, p1)
           q  == IndexOf(tpl, "%", p1 + 1)
       IN  /\ res' = IF q # -1
                     THEN r1 \o processor(Store, Substring(tpl, p1 + 1, q), epoch,
                                          build.repeater)
                     ELSE r1
           /\ p1' = IndexOf(tpl, "%", q + 1)
           /\ p2' = q
    /\ iter' = iter + 1
    /\ UNCHANGED <<tpl, pc, storeVars, clockVars, ghostVars, loopVars, httpVars, taskVars>>

\* ProcessStep that looks for the next keyword from the closing delimiter
\* on, not from the character after it
ProcessStepFromDelimiter ==
    /\ pc = "loop"
    /\ p1 # -1
    /\ iter < MaxIter
    /\ LET r1 == res \o Substring(tpl, p2, p1)
           q  == IndexOf(tpl, "%", p1 + 1)
       IN  /\ res' = IF q # -1
                     THEN r1 \o processor(Store, Substring(tpl, p1 + 1, q), epoch,
                                          build.repeater)
                     ELSE r1
           /\ p1' = IndexOf(tpl, "%", q)
           /\ p2' = q + 1
    /\ iter' = iter + 1
    /\ UNCHANGED <<tpl, pc, storeVars, clockVars, ghostVars, loopVars, httpVars, taskVars>>

\* one pass through the body of while (p1 != -1)
ProcessStep ==
    /\ pc = "loop"
    /\ p1 # -1
    /\ iter < MaxIter
    /\ LET r1 == res \o Substring(tpl, p2, p1)
           q  == IndexOf(tpl, "%", p1 + 1)
       IN  /\ res' = IF q # -1
                     THEN r1 \o processor(Store, Substring(tpl, p1 + 1, q), epoch,
                                          build.repeater)
                     ELSE r1
           /\ p1' = IndexOf(tpl, "%", q + 1)
           /\ p2' = q + 1
    /\ iter' = iter + 1
    /\ UNCHANGED <<tpl, pc, storeVars, clockVars, ghostVars, loopVars, httpVars, taskVars>>

\* ProcessReturn that appends the rest from one character too far
ProcessReturnSkipsOne ==
    /\ pc = "loop"
    /\ p1 = -1
    /\ res' = res \o SubstringFrom(tpl, p2 + 1)
    /\ pc' = "done"
    /\ UNCHANGED <<tpl, p1, p2, iter, storeVars, clockVars, ghostVars, loopVars, httpVars, taskVars>>

\* the loop has ended: res += tpl.substring(p2); return res;
ProcessReturn ==
    /\ pc = "loop"
    /\ p1 = -1
    /\ res' = res \o SubstringFrom(tpl, p2)
    /\ pc' = "done"
    /\ UNCHANGED <<tpl, p1, p2, iter, storeVars, clockVars, ghostVars, loopVars, httpVars, taskVars>>

----------------------------------------------------------------------------
(* The millisecond clock: millis() is a uint32_t, held as its two halves. *)

\* minimum time between comms statistics reports: 60 MINUTES
MIN_REPORT_INTERVAL == 3600000
\* time between temperature measurements: 30 MINUTES
REPORT_TEMPERATURE_INTERVAL == 1800000
\* time between keepalive messages: 15 SECONDS
REPORT_HELLO_INTERVAL == 15000
\* time between LED updates: 50uL
LED_INTERVAL == 50

Activities == {"temperature", "hello", "report", "led"}

Interval(a) ==
    CASE a = "temperature" -> REPORT_TEMPERATURE_INTERVAL
      [] a = "hello"       -> REPORT_HELLO_INTERVAL
      [] a = "report"      -> MIN_REPORT_INTERVAL
      [] a = "led"         -> LED_INTERVAL

\* a subtraction that does not wrap: zero when now is numerically below last
ElapsedNoWrap(now, last) == IF Gt32(last, now) THEN <<0, 0>> ELSE Sub32(now, last)

\* (unsigned long)(t_now - t_last...)
Elapsed(now, last) == Sub32(now, last)

\* the comparison with >= in place of >
ShouldFireAtInterval(now, last, interval) == ~Gt32(U32(interval), Elapsed(now, last))

\* (unsigned long)(t_now - t_last...) > interval
ShouldFire(now, last, interval) == Gt32(Elapsed(now, last), U32(interval))

\* the compile-time options: OPERATE_AS_REPEATER (else OPERATE_AS_GATEWAY),
\* USE_DS18B20, LED_BUILTIN
Builds == [repeater : BOOLEAN, ds18b20 : BOOLEAN, led : BOOLEAN]

\* the blocks of loop() that a build compiles in
Compiled(b, a) ==
    CASE a = "temperature" -> b.ds18b20
      [] a = "hello"       -> b.repeater
      [] a = "report"      -> TRUE
      [] a = "led"         -> b.led

\* the time between two passes, in ms: single steps, the intervals
\* themselves, and a quarter turn of the 32-bit clock
Deltas == {1, 50, 15000, 3600000, 1073741824}

\* the radio readings of the transmissions loop() and setup() make
LoopObserveTx == {4}

\* reportTemperature(): sends the reading when there is one
reportTemperature(s, o) == send(s, o)

\* the body of loop(): sample millis(), then each compiled block in turn;
\* the true times are kept along when timed
LoopBody(delta, o, timed) ==
    /\ LET now    == Add32(t_now, U32(delta))
           due(a) == Compiled(build, a) /\ ShouldFire(now, lastFired[a], Interval(a))
           \* #ifdef USE_DS18B20
           sT     == IF due("temperature") THEN reportTemperature(Store, o) ELSE Store
           \* #ifdef OPERATE_AS_REPEATER: send(msgHello), reportArcStatistics()
           rH     == IF due("hello")
                     THEN reportArcStatistics(send(sT, o), o)
                     ELSE [s |-> sT, payload |-> payload]
           \* every now and then: wait(1), reportArcStatistics()
           rR     == IF due("report")
                     THEN reportArcStatistics(rH.s, o)
                     ELSE rH
           \* the true time since the last {P,R,S} broadcast
           since  == IF sinceReport < 0 THEN -1 ELSE sinceReport + delta
       IN  /\ t_now' = now
           /\ lastFired' = [a \in Activities |-> IF due(a) THEN now ELSE lastFired[a]]
           /\ fired' = SelectSeq(<<"temperature", "hello", "report", "led">>, due)
           /\ IF timed
              THEN /\ seenElapsed' = [a \in Activities |->
                                 IF Compiled(build, a) THEN Elapsed(now, lastFired[a])
                                 ELSE <<0, 0>>]
                   /\ trueElapsed' = [a \in Activities |->
                                 IF Compiled(build, a) THEN trueSince[a] + delta ELSE 0]
                   /\ trueSince' = [a \in Activities |->
                                 IF ~Compiled(build, a) \/ due(a) THEN 0
                                 ELSE trueSince[a] + delta]
                   /\ reportGap' = IF due("hello") /\ due("report") THEN 0
                                   ELSE IF due("hello") \/ due("report") THEN since
                                   ELSE -1
                   /\ sinceReport' = IF due("hello") \/ due("report") THEN 0 ELSE since
              ELSE UNCHANGED <<seenElapsed, trueElapsed, trueSince, reportGap, sinceReport>>
           /\ SetStore(rR.s)
           /\ payload' = rR.payload
           \* #ifdef LED_BUILTIN: t = t_now & 0x3FF; on while t < 50
           /\ led' = IF due("led")
                     THEN (IF now[2] % 1024 < 50 THEN "on" ELSE "off")
                     ELSE led
    /\ lastOp' = "loop"
    /\ UNCHANGED <<build, nOps, passAt, clockVars, renderVars, httpVars, taskVars>>

\* one pass of loop(), counted
LoopPass(delta, o) ==
    /\ passes < MaxPasses
    /\ LoopBody(delta, o, TRUE)
    /\ passes' = passes + 1

----------------------------------------------------------------------------
(* The state when setup() has returned (main.cpp 963-1088): initStats(),   *)
(* reportTemperature() when the sensor is there, reportArcStatistics().    *)

SetupStore(b, now, o) ==
    LET s0 == initStats(ZeroStore, now)
        s1 == IF b.ds18b20 THEN reportTemperature(s0, o) ELSE s0
    IN  reportArcStatistics(s1, o)

\* the _process task is not inside an increment
NoIncrement == [op |-> "none", id |-> 0, loaded |-> 0]

\* loop() is not running
NoPass == [block |-> 0, stage |-> "none"]

\* nothing has been rendered, no pass of loop() has run
InitRest ==
    /\ lastOp = "setup"
    /\ nOps = 0
    /\ tpl = <<>> /\ p1 = -1 /\ p2 = 0 /\ res = <<>> /\ pc = "idle" /\ iter = 0
    /\ t_now = <<0, 0>>
    /\ lastFired = [a \in Activities |-> <<0, 0>>]
    /\ fired = <<>>
    /\ trueSince = [a \in Activities |-> 0]
    /\ seenElapsed = [a \in Activities |-> <<0, 0>>]
    /\ trueElapsed = [a \in Activities |-> 0]
    /\ reportGap = -1
    /\ sinceReport = -1
    /\ led = "off"
    /\ passes = 0
    /\ passAt = NoPass
    /\ request = ""
    /\ responses = <<>>
    /\ events = <<>>
    /\ restarting = FALSE
    /\ loopAt = 0
    /\ processAt = NoIncrement

InitWith(builds) ==
    /\ build \in builds
    /\ tasks = 1
    /\ epoch = 0
    /\ \E o \in SendOutcomes(build.repeater, LoopObserveTx) :
          /\ rxtxStats    = SetupStore(build, epoch, o).s.rxtxStats
          /\ nMessagesRx  = SetupStore(build, epoch, o).s.nMessagesRx
          /\ nMessagesTx  = SetupStore(build, epoch, o).s.nMessagesTx
          /\ nRetries     = SetupStore(build, epoch, o).s.nRetries
          /\ arcStats     = SetupStore(build, epoch, o).s.arcStats
          /\ t_last_clear = SetupStore(build, epoch, o).s.t_last_clear
          /\ payload      = SetupStore(build, epoch, o).payload
    /\ InitRest

\* the device comes up again after ESP.restart(): the globals are zeroed
\* and setup() runs; the wall clock and what the client has received stay
Boot ==
    /\ restarting
    /\ nOps < MaxOps
    /\ \E o \in SendOutcomes(build.repeater, LoopObserveTx) :
          /\ SetStore(SetupStore(build, epoch, o).s)
          /\ payload' = SetupStore(build, epoch, o).payload
    /\ restarting' = FALSE
    /\ lastOp' = "setup"
    /\ nOps' = nOps + 1
    /\ UNCHANGED <<clockVars, renderVars, loopVars, request, responses, events, taskVars>>

\* the options that neither the store nor process() reads are left off
PlainBuilds == {b \in Builds : ~b.ds18b20 /\ ~b.led}

----------------------------------------------------------------------------
(* Spec: the statistics store *)

Init == InitWith(PlainBuilds)

Next ==
    \/ \E ind \in Indications : OnIndication(ind)
    \/ \E sender \in SampleIds : OnPreviewMessage(sender)
    \/ \E to \in SampleIds, m \in SampleObserveTx : OnAftertransportSend(to, m)
    \/ \E o \in SendOutcomes(build.repeater, LoopObserveTx) : OnReportArcStatistics(o)
    \/ HttpClear
    \/ Tick

Spec == Init /\ [][Next]_vars

----------------------------------------------------------------------------
(* SpecRender: process() on every template of at most MaxPieces pieces *)

Pieces == {<<"%">>, <<"a">>, <<"U","N","K","N","O","W","N">>,
           <<"N","R","X">>, <<"T","A","B","L","E">>}

RECURSIVE TemplatesOf(_)
TemplatesOf(n) ==
    IF n = 0 THEN {<<>>}
    ELSE LET shorter == TemplatesOf(n - 1)
         IN  shorter \cup {t \o piece : t \in shorter, piece \in Pieces}

Templates == TemplatesOf(MaxPieces)

InitRender == InitWith(PlainBuilds)

NextRender ==
    \/ \E t \in Templates : ProcessBegin(t)
    \/ ProcessStep
    \/ ProcessReturn

SpecRender == InitRender /\ [][NextRender]_vars

----------------------------------------------------------------------------
(* SpecLoop: passes of loop() *)

\* the bare board and the board with sensor and LED, as repeater and as gateway
LoopBuilds == {b \in Builds : b.ds18b20 = b.led}

InitLoop == InitWith(LoopBuilds)

NextLoop ==
    \E delta \in Deltas, o \in SendOutcomes(build.repeater, LoopObserveTx) :
        LoopPass(delta, o)

SpecLoop == InitLoop /\ [][NextLoop]_vars

----------------------------------------------------------------------------
(* SpecLive: loop() called for ever, as the Arduino core calls it.  The
   passes are 2^21 ms apart, so that the 32-bit clock comes round after
   2048 passes and the hourly report is due in some passes and not in
   others; nothing is sent, so the counters stay where they are *)

LiveDeltas == {2097152}

\* the repeater with sensor and LED, and the bare gateway
LiveBuilds == {b \in LoopBuilds : b.repeater = b.led}

\* one pass of loop(), not counted
LoopForever(delta) ==
    /\ LoopBody(delta, NoSend, FALSE)
    /\ UNCHANGED passes

InitLive ==
    /\ build \in LiveBuilds
    /\ tasks = 1
    /\ epoch = 0
    /\ rxtxStats    = SetupStore(build, epoch, NoSend).s.rxtxStats
    /\ nMessagesRx  = SetupStore(build, epoch, NoSend).s.nMessagesRx
    /\ nMessagesTx  = SetupStore(build, epoch, NoSend).s.nMessagesTx
    /\ nRetries     = SetupStore(build, epoch, NoSend).s.nRetries
    /\ arcStats     = SetupStore(build, epoch, NoSend).s.arcStats
    /\ t_last_clear = SetupStore(build, epoch, NoSend).s.t_last_clear
    /\ payload      = SetupStore(build, epoch, NoSend).payload
    /\ InitRest

NextLive == \E delta \in LiveDeltas : LoopForever(delta)

\* loop() is called again whenever it has returned
SpecLive == InitLive /\ [][NextLive]_vars /\ WF_vars(NextLive)

----------------------------------------------------------------------------
(* SpecPass: a pass of loop() statement by statement: each block tests its
   interval, and when it is due assigns t_last... and runs its action *)

\* the blocks of loop() in the order of the source
Blocks == <<"temperature", "hello", "report", "led">>

\* the time between two passes, in ms: just past each of three intervals
PassDeltas == {51, 15001, 3600001}

\* a due block that runs its action before it assigns t_last...
StageAfterActFirst(stage) ==
    CASE stage = "test" -> "act"
      [] stage = "act"  -> "stamp"
      [] OTHER          -> "next"

\* what follows in a due block: if (...) { t_last... = t_now; action }
StageAfter(stage) ==
    CASE stage = "test"  -> "stamp"
      [] stage = "stamp" -> "act"
      [] OTHER           -> "next"

\* the pass moves on inside its block, or to the test of the next block,
\* or returns from loop() after the last one
MoveTo(stage) ==
    IF stage # "next" THEN [passAt EXCEPT !.stage = stage]
    ELSE IF passAt.block < Len(Blocks) THEN [block |-> passAt.block + 1, stage |-> "test"]
    ELSE NoPass

\* the action of block a on the store and the payload buffer
BlockAction(a, s, pl, o) ==
    CASE a = "temperature" -> [s |-> reportTemperature(s, o), payload |-> pl]
      [] a = "hello"       -> reportArcStatistics(send(s, o), o)
      [] a = "report"      -> reportArcStatistics(s, o)
      [] OTHER             -> [s |-> s, payload |-> pl]

\* loop() is entered: unsigned long t_now = millis()
PassBegin(delta) ==
    /\ passAt = NoPass
    /\ passes < MaxPasses
    /\ t_now' = Add32(t_now, U32(delta))
    /\ fired' = <<>>
    /\ passes' = passes + 1
    /\ passAt' = [block |-> 1, stage |-> "test"]
    /\ lastOp' = "loop"
    /\ UNCHANGED <<storeVars, clockVars, nOps, renderVars, build, lastFired, trueSince,
                   seenElapsed, trueElapsed, reportGap, sinceReport, led, httpVars,
                   taskVars>>

\* if ((unsigned long)(t_now - t_last...) > interval), in a block that is
\* compiled in
BlockTest ==
    /\ passAt.stage = "test"
    /\ LET a == Blocks[passAt.block]
       IN  passAt' = IF Compiled(build, a) /\ ShouldFire(t_now, lastFired[a], Interval(a))
                     THEN MoveTo(StageAfter("test"))
                     ELSE MoveTo("next")
    /\ UNCHANGED <<storeVars, clockVars, ghostVars, renderVars, build, t_now, lastFired,
                   fired, trueSince, seenElapsed, trueElapsed, reportGap, sinceReport,
                   led, passes, httpVars, taskVars>>

\* t_last... = t_now
BlockStamp ==
    /\ passAt.stage = "stamp"
    /\ lastFired' = [lastFired EXCEPT ![Blocks[passAt.block]] = t_now]
    /\ passAt' = MoveTo(StageAfter("stamp"))
    /\ UNCHANGED <<storeVars, clockVars, ghostVars, renderVars, build, t_now,
                   fired, trueSince, seenElapsed, trueElapsed, reportGap, sinceReport,
                   led, passes, httpVars, taskVars>>

\* the action of the block runs and returns
BlockAct(o) ==
    /\ passAt.stage = "act"
    /\ LET a == Blocks[passAt.block]
           r == BlockAction(a, Store, payload, o)
       IN  /\ SetStore(r.s)
           /\ payload' = r.payload
           /\ fired' = Append(fired, a)
           \* #ifdef LED_BUILTIN: t = t_now & 0x3FF; on while t < 50
           /\ led' = IF a = "led"
                     THEN (IF t_now[2] % 1024 < 50 THEN "on" ELSE "off")
                     ELSE led
    /\ passAt' = MoveTo(StageAfter("act"))
    /\ UNCHANGED <<clockVars, ghostVars, renderVars, build, t_now, lastFired,
                   trueSince, seenElapsed, trueElapsed, reportGap, sinceReport,
                   passes, httpVars, taskVars>>

InitPass == InitWith(LoopBuilds)

NextPass ==
    \/ \E delta \in PassDeltas : PassBegin(delta)
    \/ BlockTest
    \/ BlockStamp
    \/ \E o \in SendOutcomes(build.repeater, LoopObserveTx) : BlockAct(o)

SpecPass == InitPass /\ [][NextPass]_vars

----------------------------------------------------------------------------
(* SpecArc: transmissions and reports on a store that has seen traffic *)

\* the node the transmissions of SpecArc go to
ArcRecipient == 25

\* the radio readings of the transmissions of SpecArc
ArcReadings == {0, 1, 4, 15}

\* <<transmissions, retries>> since setup() of the stores SpecArc starts in:
\* none, a few, a hundred, a million, ten million, and the last count whose
\* hundredfold is below 2^32
ArcSamples == {<<0, 0>>, <<4, 0>>, <<4, 4>>, <<4, 16>>, <<119, 14>>,
               <<1000000, 1000000>>, <<1000000, 15000000>>, <<10000000, 10000000>>,
               <<42949672, 0>>}

\* the store after n more calls of aftertransportSend(ArcRecipient, ...)
\* whose estimates add up to r (0 <= r <= 15 * n)
AfterTraffic(s, n, r) ==
    IF n = 0 THEN s
    ELSE [s EXCEPT !.nMessagesTx[ArcRecipient] = @ + n,
                   !.nRetries[ArcRecipient]    = @ + r,
                   !.arcStats = [packets |-> @.packets + n,
                                 retries |-> @.retries + r,
                                 success |-> SuccessRate(@.packets + n, @.retries + r)]]

InitArc ==
    /\ build \in PlainBuilds
    /\ tasks = 1
    /\ epoch = 0
    /\ \E o \in SendOutcomes(build.repeater, LoopObserveTx), a \in ArcSamples :
          /\ payload = SetupStore(build, epoch, o).payload
          /\ LET s == AfterTraffic(SetupStore(build, epoch, o).s, a[1], a[2])
             IN  /\ rxtxStats    = s.rxtxStats
                 /\ nMessagesRx  = s.nMessagesRx
                 /\ nMessagesTx  = s.nMessagesTx
                 /\ nRetries     = s.nRetries
                 /\ arcStats     = s.arcStats
                 /\ t_last_clear = s.t_last_clear
    /\ InitRest

NextArc ==
    \/ \E m \in ArcReadings : OnAftertransportSend(ArcRecipient, m)
    \/ \E o \in SendOutcomes(build.repeater, LoopObserveTx) : OnReportArcStatistics(o)

SpecArc == InitArc /\ [][NextArc]_vars

----------------------------------------------------------------------------
(* SpecHttp: GET requests to the web UI between traffic and clock ticks *)

InitHttp == InitWith(PlainBuilds)

NextHttp ==
    \/ HttpRoot
    \/ HttpClear
    \/ HttpReboot
    \/ \E route \in Routes : HttpNotFound(route)
    \/ Boot
    \/ ~restarting /\ OnPreviewMessage(ArcRecipient)
    \/ ~restarting /\ \E m \in LoopObserveTx : OnAftertransportSend(ArcRecipient, m)
    \/ ~restarting /\ Tick

SpecHttp == InitHttp /\ [][NextHttp]_vars

----------------------------------------------------------------------------
(* SpecTable: the table rendered by process("%TABLE%") after traffic *)

\* the traffic with ArcRecipient and the seconds since the reset that
\* SpecTable starts from: none, a little after an hour, and after two
\* weeks the first count of received messages whose 3600-fold is past 2^32
TableSamples ==
    {[rx |-> 0, tx |-> 0, retries |-> 0, secs |-> 0],
     [rx |-> 7, tx |-> 5, retries |-> 20, secs |-> 3600],
     [rx |-> 1193047, tx |-> 0, retries |-> 0, secs |-> 1209600]}

\* the store after a.rx calls of previewMessage() for ArcRecipient and
\* a.tx calls of aftertransportSend() to it
AfterTableTraffic(s, a) ==
    [AfterTraffic(s, a.tx, a.retries) EXCEPT !.nMessagesRx[ArcRecipient] = @ + a.rx]

InitTable ==
    /\ build \in PlainBuilds
    /\ tasks = 1
    /\ \E o \in SendOutcomes(build.repeater, LoopObserveTx), a \in TableSamples :
          /\ epoch = a.secs
          /\ payload = SetupStore(build, 0, o).payload
          /\ LET s == AfterTableTraffic(SetupStore(build, 0, o).s, a)
             IN  /\ rxtxStats    = s.rxtxStats
                 /\ nMessagesRx  = s.nMessagesRx
                 /\ nMessagesTx  = s.nMessagesTx
                 /\ nRetries     = s.nRetries
                 /\ arcStats     = s.arcStats
                 /\ t_last_clear = s.t_last_clear
    /\ InitRest

NextTable ==
    \/ pc = "idle" /\ OnPreviewMessage(ArcRecipient)
    \/ pc = "idle" /\ \E m \in LoopObserveTx : OnAftertransportSend(ArcRecipient, m)
    \/ pc = "idle" /\ HttpClear
    \/ pc = "idle" /\ Tick
    \/ ProcessBegin(<<"%", "T", "A", "B", "L", "E", "%">>)
    \/ ProcessStep
    \/ ProcessReturn

SpecTable == InitTable /\ [][NextTable]_vars

----------------------------------------------------------------------------
(* SpecTasks: the "/clear" handler and previewMessage() statement by
   statement, in the build with one task and in the build with
   MY_SEPARATE_PROCESS_TASK, where loop() and _process() are separate tasks
   that share the counters without a lock (main.cpp 42, 1005-1009) *)

\* the number of statements of initStats()
InitStatsStatements == 6

\* the store after statement k of initStats() has run on s
initStatsStatement(s, k, now) ==
    CASE k = 1 -> [s EXCEPT !.nMessagesRx = [i \in NodeIds |-> 0]]
      [] k = 2 -> [s EXCEPT !.nMessagesTx = [i \in NodeIds |-> 0]]
      [] k = 3 -> [s EXCEPT !.nRetries    = [i \in NodeIds |-> 0]]
      [] k = 4 -> [s EXCEPT !.rxtxStats   = [nRx |-> 0, nTx |-> 0, nGwRx |-> 0,
                                            nGwTx |-> 0, nErr |-> 0]]
      [] k = 5 -> [s EXCEPT !.arcStats    = [packets |-> 0, retries |-> 0, success |-> 0]]
      [] OTHER -> [s EXCEPT !.t_last_clear = now]

\* with one task a callback and a handler never overlap; with two tasks
\* either task may run whatever the other is in the middle of
LoopTaskMayRun    == tasks = 2 \/ processAt = NoIncrement
ProcessTaskMayRun == tasks = 2 \/ loopAt = 0

\* the loop task enters the "/clear" handler and runs the first statement
\* of initStats()
ClearBegin ==
    /\ ~restarting
    /\ LoopTaskMayRun
    /\ loopAt = 0
    /\ StoreStep(initStatsStatement(Store, 1, epoch), "initStats")
    /\ loopAt' = 1
    /\ request' = "/clear"
    /\ responses' = <<>>
    /\ events' = <<>>
    /\ UNCHANGED <<payload, clockVars, renderVars, loopVars, restarting, tasks, processAt>>

\* the loop task runs the next statement of initStats()
ClearStep ==
    /\ LoopTaskMayRun
    /\ loopAt \in 1 .. InitStatsStatements - 1
    /\ SetStore(initStatsStatement(Store, loopAt + 1, epoch))
    /\ loopAt' = loopAt + 1
    /\ UNCHANGED <<payload, clockVars, ghostVars, renderVars, loopVars, httpVars,
                   tasks, processAt>>

\* initStats() has returned: the handler sends the redirect and returns
ClearReturn ==
    /\ LoopTaskMayRun
    /\ loopAt = InitStatsStatements
    /\ loopAt' = 0
    /\ responses' = handleClear(httpBegin(Store), epoch).out
    /\ events' = handleClear(httpBegin(Store), epoch).ev
    /\ UNCHANGED <<storeVars, clockVars, ghostVars, renderVars, loopVars, request,
                   restarting, tasks, processAt>>

\* the _process task enters previewMessage() and reads nMessagesRx[sender]
PreviewLoad(sender) ==
    /\ ProcessTaskMayRun
    /\ processAt = NoIncrement
    /\ nOps < MaxOps
    /\ processAt' = [op |-> "previewMessage", id |-> sender, loaded |-> nMessagesRx[sender]]
    /\ lastOp' = "previewMessage"
    /\ nOps' = nOps + 1
    /\ UNCHANGED <<storeVars, clockVars, renderVars, loopVars, httpVars, tasks, loopAt>>

\* the _process task writes the incremented value back and returns
PreviewStore ==
    /\ ProcessTaskMayRun
    /\ processAt.op = "previewMessage"
    /\ nMessagesRx' = [nMessagesRx EXCEPT ![processAt.id] = processAt.loaded + 1]
    /\ processAt' = NoIncrement
    /\ UNCHANGED <<rxtxStats, nMessagesTx, nRetries, arcStats, t_last_clear, payload,
                   clockVars, ghostVars, renderVars, loopVars, httpVars, tasks, loopAt>>

\* the _process task has forwarded a message to nextRecipient and calls
\* aftertransportSend()
ForwardSend(nextRecipient, observeTx) ==
    /\ ProcessTaskMayRun
    /\ processAt = NoIncrement
    /\ OnAftertransportSend(nextRecipient, observeTx)

InitTasks ==
    /\ build \in PlainBuilds
    /\ tasks \in {1, 2}
    /\ \E o \in SendOutcomes(build.repeater, LoopObserveTx), a \in TableSamples :
          /\ epoch = a.secs
          /\ payload = SetupStore(build, 0, o).payload
          /\ LET s == AfterTableTraffic(SetupStore(build, 0, o).s, a)
             IN  /\ rxtxStats    = s.rxtxStats
                 /\ nMessagesRx  = s.nMessagesRx
                 /\ nMessagesTx  = s.nMessagesTx
                 /\ nRetries     = s.nRetries
                 /\ arcStats     = s.arcStats
                 /\ t_last_clear = s.t_last_clear
    /\ InitRest

NextTasks ==
    \/ ClearBegin
    \/ ClearStep
    \/ ClearReturn
    \/ PreviewLoad(ArcRecipient)
    \/ PreviewStore
    \/ \E m \in LoopObserveTx : ForwardSend(ArcRecipient, m)
    \/ loopAt = 0 /\ processAt = NoIncrement /\ Tick

SpecTasks == InitTasks /\ [][NextTasks]_vars

----------------------------------------------------------------------------
(* What the specification says process() returns *)

KnownTokens ==
    {<<"I","P","A","D","D","R">>, <<"H","O","S","T","N","A","M","E">>,
     <<"N","O","D","E","I","D">>, <<"V","E","R","S","I","O","N">>,
     <<"P","A","R","E","N","T">>, <<"P","O","W","E","R">>,
     <<"C","H","A","N","N","E","L">>, <<"N","R","X">>, <<"N","T","X">>,
     <<"N","G","W","R","X">>, <<"N","G","W","T","X">>, <<"N","E","R","R">>,
     <<"P","A","C","K","E","T","S">>, <<"R","E","T","R","I","E","S">>,
     <<"S","U","C","C","E","S","S">>, <<"L","A","S","T","C","L","E","A","R">>,
     <<"E","L","A","P","S","E","D">>, <<"T","I","T","L","E">>, <<"N","O","W">>,
     <<"T","A","B","L","E">>}

\* the replacement of a token: '%' for the empty one, nothing for an unknown one
Resolve(tok) ==
    IF tok = <<>> THEN <<"%">>
    ELSE IF tok \in KnownTokens THEN processor(Store, tok, epoch, build.repeater)
    ELSE <<>>

\* character by character: literal text is copied, the text between a '%' and
\* the next '%' is resolved, an unclosed '%' is copied with what follows it
RECURSIVE ExpandFrom(_, _, _, _)
ExpandFrom(t, i, open, tok) ==
    IF i > Len(t) THEN (IF open THEN <<"%">> \o tok ELSE <<>>)
    ELSE IF t[i] = "%"
         THEN (IF open THEN Resolve(tok) \o ExpandFrom(t, i + 1, FALSE, <<>>)
                       ELSE ExpandFrom(t, i + 1, TRUE, <<>>))
         ELSE (IF open THEN ExpandFrom(t, i + 1, TRUE, tok \o <<t[i]>>)
                       ELSE <<t[i]>> \o ExpandFrom(t, i + 1, FALSE, <<>>))

Expand(t) == ExpandFrom(t, 1, FALSE, <<>>)

\* the same for a page, whose '%' come in pairs: the positions of the '%'
\* are paired off in order, and each pair is replaced with what lies
\* between it resolved
Marks(t) == {i \in 1..Len(t) : t[i] = "%"}

NthMark(t, k) == CHOOSE i \in Marks(t) : Cardinality({j \in Marks(t) : j <= i}) = k

RECURSIVE ExpandPairs(_, _)
ExpandPairs(t, k) ==
    LET n      == Cardinality(Marks(t)) \div 2
        open   == NthMark(t, 2 * k - 1)
        close  == NthMark(t, 2 * k)
        beyond == IF k < n THEN NthMark(t, 2 * k + 1) ELSE Len(t) + 1
    IN  Resolve(SubSeq(t, open + 1, close - 1)) \o SubSeq(t, close + 1, beyond - 1)
        \o (IF k < n THEN ExpandPairs(t, k + 1) ELSE <<>>)

ExpandPage(t) ==
    IF Marks(t) = {} THEN t ELSE SubSeq(t, 1, NthMark(t, 1) - 1) \o ExpandPairs(t, 1)

Percents(t) == Cardinality({i \in 1..Len(t) : t[i] = "%"})

IsPrefix(a, b) == Len(a) <= Len(b) /\ SubSeq(b, 1, Len(a)) = a

Range(f) == {f[i] : i \in DOMAIN f}

\* the grammar of the link-status report:
\* "{P:" DIGITS ",R:" DIGITS ",S:" DIGITS "}"
IsDigits(t) == t # <<>> /\ \A i \in DOMAIN t : \E d \in 0..9 : t[i] = Digit(d)

RECURSIVE ToNumber(_)
ToNumber(t) ==
    IF t = <<>> THEN 0
    ELSE 10 * ToNumber(SubSeq(t, 1, Len(t) - 1))
         + (CHOOSE d \in 0..9 : t[Len(t)] = Digit(d))

\* the three numbers of a report, or nothing when the text is not a report
ParseLinkStatus(t) ==
    LET c1 == IndexOf(t, ",", 0)
        c2 == IndexOf(t, ",", c1 + 1)
        P  == SubSeq(t, 4, c1)
        R  == SubSeq(t, c1 + 4, c2)
        S  == SubSeq(t, c2 + 4, Len(t) - 1)
    IN  IF /\ c1 # -1 /\ c2 # -1 /\ Len(t) >= c2 + 5
           /\ SubSeq(t, 1, 3) = <<"{", "P", ":">>
           /\ SubSeq(t, c1 + 1, c1 + 3) = <<",", "R", ":">>
           /\ SubSeq(t, c2 + 1, c2 + 3) = <<",", "S", ":">>
           /\ t[Len(t)] = "}"
           /\ IsDigits(P) /\ IsDigits(R) /\ IsDigits(S)
        THEN <<ToNumber(P), ToNumber(R), ToNumber(S)>>
        ELSE <<>>

\* the success field of a report as a reader finds it: what follows ",S:"
\* up to the closing brace or the end of the text
SuccessField(t) ==
    LET c1 == IndexOf(t, ",", 0)
        c2 == IndexOf(t, ",", c1 + 1)
        rest == SubSeq(t, c2 + 4, Len(t))
    IN  IF c1 = -1 \/ c2 = -1 \/ Len(t) < c2 + 3 THEN <<>>
        ELSE IF SubSeq(t, c2 + 1, c2 + 3) # <<",", "S", ":">> THEN <<>>
        ELSE IF rest # <<>> /\ rest[Len(rest)] = "}" THEN SubSeq(rest, 1, Len(rest) - 1)
        ELSE rest

\* the k-th smallest member of a set of numbers
KthOf(S, k) == CHOOSE i \in S : Cardinality({j \in S : j <= i}) = k

\* the cells of a rendered table, in order: what stands between the k-th
\* "<td>" and the "</td>" that follows it
CellOf(t, k) ==
    LET from == KthOf({i \in 1..Len(t) : t[i] = "<td>"}, k)
        to   == CHOOSE i \in from..Len(t) :
                    t[i] = "</td>" /\ \A j \in from..i : t[j] = "</td>" => j = i
    IN  SubSeq(t, from + 1, to - 1)

\* the rows of the table as the specification lists them: ids 0..9,
\* 20..29 and 100..109 to 190..199
ClaimedBases == <<0, 20, 100, 110, 120, 130, 140, 150, 160, 170, 180, 190>>

\* the neighbour of the k-th cell
ClaimedId(k) == ClaimedBases[((k - 1) \div 10) + 1] + ((k - 1) % 10)

\* exact c * p = q * n + r with 0 <= r < n, for 0 <= p and 0 < n, by
\* doubling, so that no intermediate value exceeds q or n
RECURSIVE MulDivMod(_, _, _)
MulDivMod(c, p, n) ==
    IF c = 0 THEN [q |-> 0, r |-> 0]
    ELSE LET h      == MulDivMod(c \div 2, p, n)
             carry2 == h.r >= n - h.r
             d      == [q |-> h.q + h.q + (IF carry2 THEN 1 ELSE 0),
                        r |-> IF carry2 THEN h.r - (n - h.r) ELSE h.r + h.r]
             pr     == p % n
             carry1 == d.r >= n - pr
         IN  IF c % 2 = 0 THEN d
             ELSE [q |-> d.q + (p \div n) + (IF carry1 THEN 1 ELSE 0),
                   r |-> IF carry1 THEN d.r - (n - pr) ELSE d.r + pr]

\* floor(c * p / n)
FloorMulDiv(c, p, n) == MulDivMod(c, p, n).q

----------------------------------------------------------------------------
(* Claims *)

\* C1: in every reachable state of the store, arcStats.success is
\* floor(100*packets/(packets+retries)) when packets > 0 and 100 when
\* packets = 0 (so 100 right after initStats()).
C1_SuccessPctInvariant ==
    arcStats.success =
        IF arcStats.packets > 0
        THEN (100 * arcStats.packets) \div (arcStats.packets + arcStats.retries)
        ELSE 100

\* C2: every iteration of the scan loop of process() strictly advances the
\* scan cursor: after an iteration p2 is larger than before and p1 is either
\* -1 (the loop ends) or larger than before.
C2_EveryIterationAdvances ==
    [][(pc = "loop" /\ iter' = iter + 1) =>
          (p2' > p2 /\ (p1' = -1 \/ p1' > p1))]_vars

\* C3: for a template with an odd number of '%', process() returns the
\* expansion of the text before the last '%' followed by the rest verbatim:
\* what it has built is at every moment the beginning of that text, and is
\* that text when it returns.
C3_UnterminatedPassthrough ==
    (pc \in {"loop", "done"} /\ Percents(tpl) % 2 = 1) =>
        /\ IsPrefix(res, Expand(tpl))
        /\ (pc = "done" => res = Expand(tpl))

C5_NoMarkerIdentity ==
    (pc = "done" /\ Percents(tpl) = 0) => (res = tpl /\ iter = 0)

C5_Witness ==
    /\ pc = "done"
    /\ tpl = <<"a", "N","R","X">>
    /\ res = tpl

\* the ticks of the scheduler example at which an activity of the given
\* interval fires, its lastFired starting at 0
RECURSIVE FirePoints(_, _, _)
FirePoints(ticks, last, interval) ==
    IF ticks = <<>> THEN <<>>
    ELSE IF ShouldFire(U32(Head(ticks)), U32(last), interval)
         THEN <<Head(ticks)>> \o FirePoints(Tail(ticks), Head(ticks), interval)
         ELSE FirePoints(Tail(ticks), last, interval)

\* C6: in every pass of loop() a compiled activity runs if and only if
\* elapsed(now, lastFired) > interval, it runs at most once, and its
\* lastFired changes only when it runs, to the pass's now; with intervals
\* 100 and 300 and ticks 0,50,101,150,301,400 the first runs at 101 and 301
\* and the second at 301.
C6_FiresIffElapsedExceeds ==
    [][passes' = passes + 1 =>
          /\ \A a \in Activities :
                /\ (a \in Range(fired')) <=>
                       (Compiled(build, a)
                        /\ Gt32(Sub32(t_now', lastFired[a]), U32(Interval(a))))
                /\ Cardinality({i \in DOMAIN fired' : fired'[i] = a}) <= 1
                /\ lastFired'[a] = IF a \in Range(fired') THEN t_now' ELSE lastFired[a]
          /\ FirePoints(<<0, 50, 101, 150, 301, 400>>, 0, 100) = <<101, 301>>
          /\ FirePoints(<<0, 50, 101, 150, 301, 400>>, 0, 300) = <<301>>]_vars

\* the keepalive is skipped at exactly 15000 ms and runs one ms later
C6_Witness ==
    /\ passes = 2
    /\ trueElapsed["hello"] = REPORT_HELLO_INTERVAL + 1
    /\ fired = <<"hello">>

\* C7: the elapsed time every interval check of loop() uses is
\* (now - last) mod 2^32, which is the true time since the activity last ran
\* even when the millisecond counter has rolled over in between; every check
\* compares it with '>', so an activity runs exactly when more than its
\* interval has truly passed.
C7_ElapsedIsTrueDistance ==
    passes > 0 =>
        \A a \in Activities :
            Compiled(build, a) =>
                /\ seenElapsed[a] = U32(trueElapsed[a])
                /\ (a \in Range(fired)) <=> (trueElapsed[a] > Interval(a))

\* the counter has rolled over since the activity last ran
C7_Witness ==
    /\ passes > 0
    /\ \E a \in Activities :
          /\ Compiled(build, a)
          /\ Gt32(U32(trueElapsed[a]), t_now)
          /\ a \in Range(fired)

\* C8: between two consecutive {P,R,S} broadcasts of the running loop more
\* than MIN_REPORT_INTERVAL has passed, in the repeater and in the gateway.
C8_ReportFloor ==
    reportGap = -1 \/ reportGap > MIN_REPORT_INTERVAL

\* a step that is a call of aftertransportSend()
IsTransmission == nOps' = nOps + 1 /\ lastOp' = "aftertransportSend"

\* C11: each call of collectArcStatistics() increases packets by exactly 1,
\* increases retries by exactly the estimate it returns (the amount its
\* caller adds to the neighbour's retries), and leaves success equal to
\* floor(100*packets/(packets+retries)) over the new values; 5 packets with
\* 0, 5 and 20 retries give 100, 50 and 20.
C11_RecordLinkOutcome ==
    [][IsTransmission =>
          LET added == arcStats'.retries - arcStats.retries
          IN  /\ arcStats'.packets = arcStats.packets + 1
              /\ added >= 0
              /\ \E i \in NodeIds : nRetries' = [nRetries EXCEPT ![i] = @ + added]
              /\ arcStats'.success =
                     FloorMulDiv(100, arcStats'.packets,
                                 arcStats'.packets + arcStats'.retries)
              /\ (arcStats'.packets = 5 /\ arcStats'.retries = 0
                     => arcStats'.success = 100)
              /\ (arcStats'.packets = 5 /\ arcStats'.retries = 5
                     => arcStats'.success = 50)
              /\ (arcStats'.packets = 5 /\ arcStats'.retries = 20
                     => arcStats'.success = 20)]_vars

\* C12: for every reading the radio returns after a transmission the
\* estimated retry count is max(0, (-(rssi+29))/8) in integer division: it
\* is never negative, nor is what is added to arcStats.retries and to the
\* neighbour's nRetries, and for the radio's metric m in 0..15
\* (rssi = -29 - 8*m) it is exactly m.
C12_EstimateIsMetric ==
    [][IsTransmission =>
          LET added == arcStats'.retries - arcStats.retries
          IN  /\ added \in ArcReadings
              /\ nRetries'[ArcRecipient] - nRetries[ArcRecipient] = added
              /\ \A m \in ObserveTx :
                    LET rssi == transportHALGetSendingRSSI(m)
                        est  == CDiv(-(rssi + 29), 8)
                    IN  /\ rssi = -29 - 8 * m
                        /\ ArcOfRssi(rssi) = m
                        /\ m = IF est > 0 THEN est ELSE 0]_vars

\* a first transmission that needed all fifteen retries
C12_Witness ==
    /\ lastOp = "aftertransportSend"
    /\ arcStats.packets = 1
    /\ arcStats.retries = 15
    /\ nRetries[ArcRecipient] = 15

\* a step that is a call of reportArcStatistics()
IsReport == nOps' = nOps + 1 /\ lastOp' = "reportArcStatistics"

\* C13: for all values of packets, retries and success the store holds,
\* the text reportArcStatistics() emits is exactly
\* "{P:<packets>,R:<retries>,S:<success>}" in decimal with nothing cut off,
\* so that parsing it with the report grammar gives the same three numbers;
\* for packets = 120, retries = 14 it is {P:120,R:14,S:89}.
C13_ReportRoundTrip ==
    [][IsReport =>
          /\ payload' = <<"{", "P", ":">> \o utos(arcStats.packets)
                         \o <<",", "R", ":">> \o utos(arcStats.retries)
                         \o <<",", "S", ":">> \o utos(arcStats.success) \o <<"}">>
          /\ ParseLinkStatus(payload')
                = <<arcStats.packets, arcStats.retries, arcStats.success>>
          /\ (arcStats.packets = 120 /\ arcStats.retries = 14 =>
                 payload' = <<"{", "P", ":", "1", "2", "0", ",", "R", ":", "1", "4",
                              ",", "S", ":", "8", "9", "}">>)]_vars

\* C14: in every reachable state the success percent of the store is an
\* integer in 0..100, and so is the success field of the last report
\* emitted and the text the dashboard shows for %SUCCESS%.
C14_SuccessInRange ==
    /\ arcStats.success \in 0..100
    /\ LET shown == processor(Store, <<"S","U","C","C","E","S","S">>, epoch,
                              build.repeater)
       IN  IsDigits(shown) /\ ToNumber(shown) \in 0..100
    /\ LET sent == SuccessField(payload)
       IN  IsDigits(sent) /\ ToNumber(sent) \in 0..100

\* a step in which a GET request is handled
IsRequest ==
    nOps' = nOps + 1 /\ lastOp' \in {"process", "initStats", "ESP.restart", "notFound"}

\* C15: every GET request gets exactly one response, determined by its
\* route: 200 text/html with the rendered dashboard for "/", 302 with the
\* header Location: / for "/clear" and "/reboot", 404 text/plain for every
\* other route.
C15_OneResponsePerRoute ==
    [][IsRequest =>
          /\ Len(responses') = 1
          /\ LET r == responses'[1]
             IN  CASE request' = "/" ->
                        /\ r.code = 200
                        /\ r.type = "text/html"
                        /\ r.content = ExpandPage(common_header_html
                                                   \o index_body_html(build.repeater)
                                                   \o common_footer_html)
                   [] request' \in {"/clear", "/reboot"} ->
                        /\ r.code = 302
                        /\ r.headers = <<(<<"Location", "/">>)>>
                   [] OTHER ->
                        /\ r.code = 404
                        /\ r.type = "text/plain"]_vars

\* the dashboard has been served after traffic
C15_Witness ==
    /\ request = "/"
    /\ lastOp = "process"
    /\ nMessagesRx[ArcRecipient] > 0
    /\ Len(responses) = 1
    /\ responses[1].code = 200

\* C16: the "/clear" handler resets the store (every counter 0,
\* t_last_clear = now) before it sends the 302, so the dashboard request
\* that follows the redirect is served the page of a cleared store; the
\* "/reboot" handler sends the 302 before it calls ESP.restart() and leaves
\* the statistics as they are.
C16_ClearThenRedirect ==
    [][IsRequest =>
          /\ request' = "/clear" =>
                /\ events' = <<"initStats", "sendHeader", "send">>
                /\ Store' = initStats(ZeroStore, epoch)
          /\ (request' = "/" /\ lastOp = "initStats") =>
                responses'[1].content =
                    process(initStats(ZeroStore, t_last_clear),
                            common_header_html \o index_body_html(build.repeater)
                                \o common_footer_html,
                            epoch, build.repeater)
          /\ request' = "/reboot" =>
                /\ events' = <<"sendHeader", "send", "ESP.restart">>
                /\ restarting'
                /\ Store' = Store]_vars

\* the dashboard served right after a "/clear" made at second 1
C16_Witness ==
    /\ request = "/"
    /\ lastOp = "process"
    /\ nOps = 3
    /\ t_last_clear = 1
    /\ responses[1].code = 200

\* C17: no reachable state leads to a division by zero: the next call of
\* collectArcStatistics() divides by packets + retries > 0 (with no packets
\* the success would be 100), and rendering the table divides by
\* tx + retries only for a neighbour with tx > 0 and by the seconds since
\* the reset only when they are not 0.
C17_NoDivisionByZero ==
    /\ \A m \in ObserveTx : <<0, 0>> \notin collectArcStatistics_divisors(Store, m)
    /\ <<0, 0>> \notin make_table_divisors(Store, epoch)
    /\ SuccessRate(0, 0) = 100
    /\ \A id \in NodeIds :
          /\ nMessagesTx[id] = 0 =>
                SuccessDivisor(nMessagesTx[id], nRetries[id])
                    \notin make_table_cell_divisors(Store, id, epoch - t_last_clear)
          /\ epoch = t_last_clear =>
                U32(0) \notin make_table_cell_divisors(Store, id, epoch - t_last_clear)

\* the dashboard is served in the second of the reset, with a neighbour
\* that has been sent to and one that has not
C17_Witness ==
    /\ lastOp = "process"
    /\ epoch = t_last_clear
    /\ nMessagesTx[ArcRecipient] > 0
    /\ nMessagesTx[ArcRecipient + 1] = 0

\* the template that is the table alone
TableOnly == <<"%", "T", "A", "B", "L", "E", "%">>

\* what a cell shows according to C18: the count of messages received,
\* the messages per hour when the seconds since the reset are not 0, the
\* success rate when messages have been sent to the neighbour
C18_Cell(id) ==
    LET rx   == nMessagesRx[id]
        tx   == nMessagesTx[id]
        secs == epoch - t_last_clear
    IN  <<"<b>">> \o utos(rx) \o <<"</b>">>
        \o (IF secs # 0
            THEN <<"&ensp;<span class='mph'>">> \o utos(FloorMulDiv(3600, rx, secs))
                 \o <<"/h</span>">>
            ELSE <<>>)
        \o (IF tx > 0
            THEN <<"<br/><span class='suc'>">>
                 \o utos(FloorMulDiv(100, tx, tx + nRetries[id])) \o <<"%", "</span>">>
            ELSE <<>>)

\* C18: in the rendered table the cell of each neighbour shows the count of
\* messages received from it; the messages per hour,
\* floor(rx*3600/seconds since the reset), exactly when those seconds are
\* not 0; and the success rate floor(100*tx/(tx+retries)) exactly when
\* tx > 0.
C18_CellContents ==
    (pc = "done" /\ tpl = TableOnly) =>
        /\ Cardinality({i \in 1..Len(res) : res[i] = "<td>"}) = 120
        /\ \A k \in 1..120 : CellOf(res, k) = C18_Cell(ClaimedId(k))

\* the positions at which the data rows of a rendered table start
RowStarts(t) == {i \in 1..Len(t) : t[i] = "<tr><th>"}

\* the k-th data row of a rendered table, up to its "</tr>"
RowOf(t, k) ==
    LET from == KthOf(RowStarts(t), k)
        to   == CHOOSE i \in from..Len(t) :
                    t[i] = "</tr>\n" /\ \A j \in from..i : t[j] = "</tr>\n" => j = i
    IN  SubSeq(t, from, to)

\* C19: the rendered table has exactly 12 data rows, in the order of the
\* bases 0, 20, 100, 110, ..., 190, each labelled with its base and made of
\* the 10 cells of the neighbours base+0..base+9; the ids read are exactly
\* 0..9, 20..29 and 100..199, all of them indexes of the 256-entry arrays.
C19_TableLayout ==
    (pc = "done" /\ tpl = TableOnly) =>
        /\ Cardinality(RowStarts(res)) = 12
        /\ \A r \in 1..12 :
              LET row   == RowOf(res, r)
                  label == <<"<tr><th>">> \o utos(ClaimedBases[r]) \o <<":</td>">>
              IN  /\ SubSeq(row, 1, Len(label)) = label
                  /\ Cardinality({i \in 1..Len(row) : row[i] = "<td>"}) = 10
                  /\ \A x \in 0..9 :
                        <<"<td>">> \o CellOf(row, x + 1) \o <<"</td>">>
                            = make_table_cell(Store, ClaimedBases[r] + x,
                                              epoch - t_last_clear)
        /\ Len(make_table_ids) = 12
        /\ \A r \in 1..12 : make_table_ids[r] = [x \in 1..10 |-> ClaimedBases[r] + x - 1]
        /\ UNION {Range(make_table_ids[r]) : r \in 1..12}
              = (0..9) \cup (20..29) \cup (100..199)
        /\ \A r \in 1..12 : Range(make_table_ids[r]) \subseteq DOMAIN nMessagesRx

\* the table has been rendered with a neighbour of its second row heard
C19_Witness ==
    /\ pc = "done"
    /\ tpl = TableOnly
    /\ nMessagesRx[ArcRecipient] = 8
    /\ CellOf(RowOf(res, 2), 6) # <<>>
    /\ CellOf(RowOf(res, 2), 5) = <<>>

\* C20: every operation on the statistics runs to completion before the
\* next is considered. No step of a mutator (previewMessage) is taken while
\* the reset of the "/clear" handler is in progress, and no step of the
\* reset while a mutator is; so the reset leaves every counter at zero when
\* it is done, and an increment that returns has added exactly one to the
\* counter as it stood.
C20_RunToCompletion ==
    [][/\ (processAt' # processAt => loopAt = 0 /\ loopAt' = 0)
       /\ (loopAt' # loopAt => processAt = NoIncrement /\ processAt' = NoIncrement)
       /\ (loopAt = InitStatsStatements /\ loopAt' = 0
              => Store' = initStats(Store, Store.t_last_clear))
       /\ (processAt.op = "previewMessage" /\ processAt' = NoIncrement
              => nMessagesRx'[processAt.id] = nMessagesRx[processAt.id] + 1)]_vars

\* a step that is a reset of the store
IsReset == nOps' = nOps + 1 /\ lastOp' = "initStats"

C10_ResetZeroesAll ==
    [][IsReset =>
          /\ rxtxStats' = [nRx |-> 0, nTx |-> 0, nGwRx |-> 0, nGwTx |-> 0, nErr |-> 0]
          /\ \A i \in NodeIds :
                nMessagesRx'[i] = 0 /\ nMessagesTx'[i] = 0 /\ nRetries'[i] = 0
          /\ arcStats'.packets = 0
          /\ arcStats'.retries = 0
          /\ t_last_clear' = epoch]_vars

\* a reset after the clock has advanced and after traffic
C10_Witness ==
    /\ lastOp = "initStats"
    /\ nOps = 3
    /\ t_last_clear = 1
    /\ \A i \in NodeIds : nRetries[i] = 0

\* C21: reportArcStatistics() sends the message with the error statistics
\* and then resets the counters: after each call arcStats.packets and
\* arcStats.retries are 0.
C21_ReportResets ==
    [][IsReport => arcStats'.packets = 0 /\ arcStats'.retries = 0]_vars

\* activity a has run its action in the current pass
HasFired(a) == \E i \in 1 .. Len(fired) : fired[i] = a

\* C22: when an activity is due in a pass, its action is executed first
\* and only after the action has returned is the activity's lastFired set
\* to now: no t_last... changes before its block's action has run.
C22_ActionThenStamp ==
    [][\A a \in Activities : lastFired'[a] # lastFired[a] => HasFired(a)]_vars

\* C22 as the code has it: when an activity is due in a pass, its lastFired
\* is set to the pass's now first and its action is executed right after,
\* before the next block is tested; the action leaves lastFired alone.
C22_StampThenAction ==
    [][/\ \A a \in Activities :
             lastFired'[a] # lastFired[a]
                => /\ ~HasFired(a)
                   /\ lastFired'[a] = t_now
                   /\ passAt' = [block |-> passAt.block, stage |-> "act"]
                   /\ Blocks[passAt.block] = a
       /\ fired' # fired /\ fired' # <<>>
             => /\ fired' = Append(fired, Blocks[passAt.block])
                /\ lastFired[Blocks[passAt.block]] = t_now
                /\ lastFired' = lastFired]_vars

\* the hourly report has run in a pass that has returned, stamped with the
\* time of that pass
C22_Witness ==
    /\ passAt = NoPass
    /\ HasFired("report")
    /\ lastFired["report"] = t_now
    /\ t_now # <<0, 0>>

\* the sum of f[lo] .. f[hi], by halves
RECURSIVE SumRange(_, _, _)
SumRange(f, lo, hi) ==
    IF lo > hi THEN 0
    ELSE IF lo = hi THEN f[lo]
    ELSE LET mid == (lo + hi) \div 2
         IN  SumRange(f, lo, mid) + SumRange(f, mid + 1, hi)

\* the sum of a per-neighbour counter over all 256 ids
SumOverIds(f) == SumRange(f, 0, 255)

\* no operation on the store is in the middle of its statements
BetweenOperations == loopAt = 0 /\ processAt = NoIncrement

\* C23: the hook after a transmission feeds the same retry value to the
\* link aggregate and to the per-neighbour counters, and a reset zeroes
\* both: whenever no operation is under way, arcStats.packets is the sum of
\* nMessagesTx[i] and arcStats.retries the sum of nRetries[i] over all 256
\* ids.
C23_AggregateIsSum ==
    BetweenOperations =>
        /\ arcStats.packets = SumOverIds(nMessagesTx)
        /\ arcStats.retries = SumOverIds(nRetries)

\* the global counter that counts indications of a kind, none for other kinds
GlobalCounters == {"nRx", "nTx", "nGwRx", "nGwTx", "nErr"}
CounterOf(ind) ==
    CASE ind = "INDICATION_RX"     -> "nRx"
      [] ind = "INDICATION_TX"     -> "nTx"
      [] ind = "INDICATION_GW_RX"  -> "nGwRx"
      [] ind = "INDICATION_GW_TX"  -> "nGwTx"
      [] ind = "INDICATION_ERR_TX" -> "nErr"
      [] OTHER                     -> "none"

\* C24: indication(ind) for RX, TX, GW_RX, GW_TX and ERR_TX increases
\* exactly the matching global counter by 1 and leaves the other four
\* global counters, the per-neighbour counters, the link aggregate and
\* t_last_clear unchanged; an indication of any other kind leaves the whole
\* store unchanged.
C24_IndicationFrame ==
    \A ind \in Indications :
        LET after == indication(Store, ind)
        IN  /\ \A c \in GlobalCounters :
                  after.rxtxStats[c] = rxtxStats[c] + (IF c = CounterOf(ind) THEN 1 ELSE 0)
            /\ after.nMessagesRx = nMessagesRx
            /\ after.nMessagesTx = nMessagesTx
            /\ after.nRetries = nRetries
            /\ after.arcStats = arcStats
            /\ after.t_last_clear = t_last_clear
            /\ CounterOf(ind) = "none" => after = Store

\* a gateway has received a message and sent two after traffic with its
\* neighbours
C24_Witness ==
    /\ lastOp = "indication"
    /\ rxtxStats.nGwRx = 1
    /\ rxtxStats.nGwTx = 2
    /\ rxtxStats.nRx = 0

\* the node ids the effects of the per-neighbour operations are examined for
FrameIds == {0, 25, 255}

\* the retry counts they are examined for
FrameObserveTx == {0, 1, 15}

\* C25: previewMessage() of a message from id increases nMessagesRx[id] by
\* 1 and changes nothing else; aftertransportSend(id, ...) with a retry
\* estimate of m increases nMessagesTx[id] by 1 and nRetries[id] by m and
\* leaves the counters of every other id, all nMessagesRx and the global
\* indication counters unchanged.
C25_NeighbourFrame ==
    \A id \in FrameIds :
        /\ LET after == previewMessage(Store, id)
           IN  /\ after.nMessagesRx = [j \in NodeIds |->
                                          nMessagesRx[j] + (IF j = id THEN 1 ELSE 0)]
               /\ after.nMessagesTx = nMessagesTx
               /\ after.nRetries = nRetries
               /\ after.rxtxStats = rxtxStats
               /\ after.arcStats = arcStats
               /\ after.t_last_clear = t_last_clear
        /\ \A m \in FrameObserveTx :
              LET after == aftertransportSend(Store, id, m)
              IN  /\ after.nMessagesTx = [j \in NodeIds |->
                                             nMessagesTx[j] + (IF j = id THEN 1 ELSE 0)]
                  /\ after.nRetries = [j \in NodeIds |->
                                          nRetries[j] + (IF j = id THEN m ELSE 0)]
                  /\ after.nMessagesRx = nMessagesRx
                  /\ after.rxtxStats = rxtxStats

\* a message from node 25 has been counted and one has been sent to it
\* with 4 retries
C25_Witness ==
    /\ lastOp = "aftertransportSend"
    /\ nMessagesRx[ArcRecipient] = 1
    /\ nMessagesTx[ArcRecipient] = 1
    /\ nRetries[ArcRecipient] = 4
    /\ nMessagesTx[255] = 0

\* the positions (from 0) of the '%' of the text t
MarkPositions(t) == {i \in 0 .. Len(t) - 1 : t[i + 1] = "%"}

\* position i is the first '%' of t at or after position from, -1 for none
IsNextMark(t, i, from) ==
    IF \E j \in MarkPositions(t) : j >= from
    THEN i \in MarkPositions(t) /\ i >= from
         /\ \A j \in MarkPositions(t) : j >= from => i <= j
    ELSE i = -1

\* C26: rendering never rescans what the resolver produced. In an
\* iteration of process() that finds the closing '%' of a keyword at q, the
\* result grows by the literal text before the keyword and the resolver's
\* text for it, appended as they are, the template is left alone, and the
\* scan goes on in the template just after q: the next keyword opens at the
\* first '%' of the template from q + 1 on, whatever the resolver's text
\* holds (the keyword %% resolves to a '%').
C26_ResolvedTextNotRescanned ==
    [][(pc = "loop" /\ iter' = iter + 1)
          => \A q \in MarkPositions(tpl) :
                IsNextMark(tpl, q, p1 + 1)
                   => /\ res' = res \o Substring(tpl, p2, p1)
                                  \o processor(Store, Substring(tpl, p1 + 1, q), epoch,
                                               build.repeater)
                      /\ tpl' = tpl
                      /\ p2' = q + 1
                      /\ IsNextMark(tpl, p1', q + 1)]_vars

\* "%%%%" has been rendered as "%%": the '%' the first keyword resolved to
\* did not pair with anything
C26_Witness ==
    /\ pc = "done"
    /\ tpl = <<"%", "%", "%", "%">>
    /\ res = <<"%", "%">>
    /\ iter = 2

\* C27: provided loop() keeps being called and millis() keeps advancing,
\* every periodic activity that is compiled in fires again and again, for
\* ever, also across the rollover of the 32-bit clock; none is disabled for
\* good or starved by another.
C27_FiresForever ==
    \A a \in Activities : []<>(Compiled(build, a) => HasFired(a))

\* the clock has come round to 0 and the hourly report, last run before
\* the rollover, has run in this pass
C27_Witness ==
    /\ t_now = <<0, 0>>
    /\ HasFired("report")
    /\ lastFired["report"] = <<0, 0>>

====
